---- MODULE Spec2Model ----
(***************************************************************************)
(* Model of Cutter's Configuration facade (src/common/Configuration.cpp):  *)
(* the durable QSettings store `s`, the external engine behind Core(), the *)
(* application palette, and the facade's operations on them.               *)
(*                                                                         *)
(* Encodings                                                               *)
(*   optional value   a set with at most one element ({} = key absent)     *)
(*   QColor           <<r, g, b, a>>; the invalid QColor() is InvalidColor *)
(*   QVariant         <<type, number, string>>, type in                    *)
(*                    "bool" | "int" | "string" | "invalid"                *)
(*   engine value     <<kind, number, string>>, kind in "num" | "str"      *)
(***************************************************************************)
EXTENDS Integers, Sequences, FiniteSets, TLC

VARIABLES
    s,              \* QSettings s: the durable store
    core,           \* the external engine: option table and loaded colour scheme
    palette,        \* qApp->palette(): Window and Text colours
    styleSheet,     \* qApp->styleSheet(): the resource last applied
    nativePalette,  \* Configuration::nativePalette, captured by the constructor
    emitted,        \* signals emitted by the last facade call, in order
    call,           \* the last facade call and its arguments
    ret             \* what the last call returned (NoRet for a void call)

vars == <<s, core, palette, styleSheet, nativePalette, emitted, call, ret>>

----------------------------------------------------------------------------
(* Bounds of the model *)

\* setInterfaceTheme is tried with indices from -IndexSlack to size-1+IndexSlack
IndexSlack == 1

----------------------------------------------------------------------------
(* Static data *)

LightFlag == "LightFlag"
DarkFlag == "DarkFlag"

kCutterInterfaceThemesList ==
    << [name |-> "Native", flag |-> {LightFlag, DarkFlag}],
       [name |-> "Dark",   flag |-> {DarkFlag}],
       [name |-> "Light",  flag |-> {LightFlag}] >>

\* kCutterInterfaceThemesList.size()
ThemesListSize == Len(kCutterInterfaceThemesList)

\* kCutterInterfaceThemesList[i], i counted from 0 as in the source
ThemeAt(i) == kCutterInterfaceThemesList[i + 1]

InterfaceThemeNames == {kCutterInterfaceThemesList[i].name : i \in 1..ThemesListSize}

QBool(b) == <<"bool", IF b THEN 1 ELSE 0, "">>
QInt(n) == <<"int", n, "">>
QStr(str) == <<"string", 0, str>>
\* QVariant()
QInvalid == <<"invalid", 0, "">>

asmOptions ==
    ( "asm.esil"            :> QBool(FALSE) ) @@
    ( "asm.pseudo"          :> QBool(FALSE) ) @@
    ( "asm.offset"          :> QBool(TRUE) ) @@
    ( "asm.xrefs"           :> QBool(FALSE) ) @@
    ( "asm.indent"          :> QBool(FALSE) ) @@
    ( "asm.describe"        :> QBool(FALSE) ) @@
    ( "asm.slow"            :> QBool(TRUE) ) @@
    ( "asm.lines"           :> QBool(TRUE) ) @@
    ( "asm.lines.fcn"       :> QBool(TRUE) ) @@
    ( "asm.flags.offset"    :> QBool(FALSE) ) @@
    ( "asm.emu"             :> QBool(FALSE) ) @@
    ( "asm.cmt.right"       :> QBool(TRUE) ) @@
    ( "asm.cmt.col"         :> QInt(35) ) @@
    ( "asm.var.summary"     :> QBool(FALSE) ) @@
    ( "asm.bytes"           :> QBool(FALSE) ) @@
    ( "asm.size"            :> QBool(FALSE) ) @@
    ( "asm.bytespace"       :> QBool(FALSE) ) @@
    ( "asm.lbytes"          :> QBool(TRUE) ) @@
    ( "asm.nbytes"          :> QInt(10) ) @@
    ( "asm.syntax"          :> QStr("intel") ) @@
    ( "asm.ucase"           :> QBool(FALSE) ) @@
    ( "asm.bb.line"         :> QBool(FALSE) ) @@
    ( "asm.capitalize"      :> QBool(FALSE) ) @@
    ( "asm.var.sub"         :> QBool(TRUE) ) @@
    ( "asm.var.subonly"     :> QBool(TRUE) ) @@
    ( "asm.tabs"            :> QInt(5) ) @@
    ( "asm.tabs.off"        :> QInt(5) ) @@
    ( "asm.marks"           :> QBool(FALSE) ) @@
    ( "esil.breakoninvalid" :> QBool(TRUE) ) @@
    ( "graph.offset"        :> QBool(FALSE) )

\* asmOptions.contains(key)
IsAsmOption(key) == key \in DOMAIN asmOptions

\* QColor(r, g, b): alpha defaults to 255
RGB(r, g, b) == <<r, g, b, 255>>
\* QColor(r, g, b, a)
RGBA(r, g, b, a) == <<r, g, b, a>>
\* QColor(): what value<QColor>() yields for a key the store does not hold
InvalidColor == <<0, 0, 0, 0 - 1>>

\* The setColor calls of loadBaseThemeNative, in order
NativeBaseColors ==
    << <<"gui.cflow", RGB(0, 0, 0)>>,
       <<"gui.imports", RGB(50, 140, 255)>>,
       <<"gui.main", RGB(0, 128, 0)>>,
       <<"gui.navbar.seek", RGB(255, 0, 0)>>,
       <<"gui.navbar.pc", RGB(66, 238, 244)>>,
       <<"gui.navbar.code", RGB(104, 229, 69)>>,
       <<"gui.navbar.str", RGB(69, 104, 229)>>,
       <<"gui.navbar.sym", RGB(229, 150, 69)>>,
       <<"gui.navbar.empty", RGB(100, 100, 100)>>,
       <<"gui.breakpoint_background", RGB(233, 143, 143)>>,
       <<"gui.item_invalid", RGB(155, 155, 155)>>,
       <<"gui.item_unsafe", RGB(255, 129, 123)>>,
       <<"gui.overview.node", RGB(200, 200, 200)>>,
       <<"gui.tooltip.background", RGB(250, 252, 254)>>,
       <<"gui.tooltip.foreground", RGB(42, 44, 46)>> >>

\* loadNativeTheme, the windowColorIsDark() branch
NativeDarkColors ==
    << <<"gui.border", RGB(0, 0, 0)>>,
       <<"gui.background", RGB(30, 30, 30)>>,
       <<"gui.alt_background", RGB(42, 42, 42)>>,
       <<"gui.disass_selected", RGB(35, 35, 35)>>,
       <<"lineHighlight", RGBA(255, 255, 255, 15)>>,
       <<"wordHighlight", RGBA(20, 20, 20, 255)>>,
       <<"highlightPC", RGB(87, 26, 7)>>,
       <<"gui.tooltip.background", RGB(42, 44, 46)>>,
       <<"gui.tooltip.foreground", RGB(250, 252, 254)>>,
       <<"gui.dataoffset", RGB(255, 255, 255)>>,
       <<"gui.overview.fill", RGBA(255, 255, 255, 40)>>,
       <<"gui.overview.border", RGBA(99, 218, 232, 50)>> >>

\* loadNativeTheme, the else branch
NativeLightColors ==
    << <<"gui.border", RGB(0, 0, 0)>>,
       <<"gui.background", RGB(255, 255, 255)>>,
       <<"gui.alt_background", RGB(245, 250, 255)>>,
       <<"gui.disass_selected", RGB(255, 255, 255)>>,
       <<"lineHighlight", RGBA(210, 210, 255, 150)>>,
       <<"wordHighlight", RGBA(179, 119, 214, 60)>>,
       <<"highlightPC", RGB(214, 255, 210)>>,
       <<"gui.dataoffset", RGB(0, 0, 0)>>,
       <<"gui.overview.fill", RGBA(175, 217, 234, 65)>>,
       <<"gui.overview.border", RGBA(99, 218, 232, 50)>> >>

\* The setColor calls of loadLightTheme, in order
LightColors ==
    << <<"gui.border", RGB(145, 200, 250)>>,
       <<"gui.background", RGB(255, 255, 255)>>,
       <<"gui.alt_background", RGB(245, 250, 255)>>,
       <<"gui.disass_selected", RGB(255, 255, 255)>>,
       <<"lineHighlight", RGBA(210, 210, 255, 150)>>,
       <<"wordHighlight", RGBA(179, 119, 214, 60)>>,
       <<"highlightPC", RGB(214, 255, 210)>>,
       <<"gui.navbar.empty", RGB(220, 236, 245)>>,
       <<"gui.navbar.err", RGB(3, 170, 245)>>,
       <<"gui.tooltip.background", RGB(250, 252, 254)>>,
       <<"gui.tooltip.foreground", RGB(42, 44, 46)>>,
       <<"gui.overview.node", RGB(245, 250, 255)>>,
       <<"gui.overview.fill", RGBA(175, 217, 234, 65)>>,
       <<"gui.overview.border", RGBA(99, 218, 232, 50)>> >>

\* The setColor calls of loadBaseThemeDark, in order
DarkBaseColors ==
    << <<"gui.cflow", RGB(255, 255, 255)>>,
       <<"gui.dataoffset", RGB(255, 255, 255)>>,
       <<"gui.imports", RGB(50, 140, 255)>>,
       <<"gui.item_invalid", RGB(155, 155, 155)>>,
       <<"gui.item_unsafe", RGB(255, 129, 123)>>,
       <<"gui.main", RGB(0, 128, 0)>>,
       <<"gui.navbar.seek", RGB(233, 86, 86)>>,
       <<"gui.navbar.pc", RGB(66, 238, 244)>>,
       <<"gui.navbar.code", RGB(130, 200, 111)>>,
       <<"gui.navbar.str", RGB(111, 134, 216)>>,
       <<"gui.navbar.sym", RGB(221, 163, 104)>>,
       <<"gui.navbar.empty", RGB(100, 100, 100)>>,
       <<"highlightPC", RGB(87, 26, 7)>>,
       <<"gui.breakpoint_background", RGB(140, 76, 76)>>,
       <<"gui.overview.node", RGB(100, 100, 100)>>,
       <<"gui.overview.fill", RGBA(255, 255, 255, 40)>>,
       <<"gui.overview.border", RGBA(99, 218, 232, 50)>> >>

\* The setColor calls of loadDarkTheme after loadBaseThemeDark, in order
DarkColors ==
    << <<"gui.border", RGB(100, 100, 100)>>,
       <<"gui.background", RGB(37, 40, 43)>>,
       <<"gui.alt_background", RGB(28, 31, 36)>>,
       <<"gui.disass_selected", RGB(31, 34, 40)>>,
       <<"gui.tooltip.background", RGB(42, 44, 46)>>,
       <<"gui.tooltip.foreground", RGB(250, 252, 254)>>,
       <<"lineHighlight", RGBA(21, 29, 29, 150)>>,
       <<"wordHighlight", RGBA(52, 58, 71, 255)>> >>

KeysOf(table) == {table[i][1] : i \in 1..Len(table)}


----------------------------------------------------------------------------
(* The external engine, behind Core() and ThemeWorker() *)

\* Colour schemes the engine can load, each as the JSON object the engine
\* reports for it: key -> integer array. "default" is the engine's native
\* scheme, "ayu" a bundled one, "MyCustom" a user-defined one that also
\* defines navbar keys and holds one malformed (3-component) entry.
EngineSchemes ==
    ( "default"  :> ( ( "gui.background" :> <<0, 0, 0, 255>> ) @@
                      ( "other"          :> <<192, 192, 192, 255>> ) @@
                      ( "graph.true"     :> <<0, 128, 0, 255>> ) ) ) @@
    ( "ayu"      :> ( ( "gui.background" :> <<15, 20, 25, 255>> ) @@
                      ( "other"          :> <<230, 225, 207, 255>> ) ) ) @@
    ( "MyCustom" :> ( ( "gui.background"   :> <<10, 20, 30, 255>> ) @@
                      ( "gui.navbar.seek"  :> <<1, 2, 3, 255>> ) @@
                      ( "gui.navbar.empty" :> <<4, 5, 6, 255>> ) @@
                      ( "wordHighlight"    :> <<7, 8, 9>> ) ) )

ThemeNames == DOMAIN EngineSchemes

CustomThemes == {"MyCustom"}

\* ThemeWorker().isCustomTheme(theme)
isCustomTheme(theme) == theme \in CustomThemes

\* Engine options outside the asmOptions catalog
OtherEngineKeys == {"bin.demangle"}

EngineKeys == DOMAIN asmOptions \cup OtherEngineKeys

\* The engine after "e-" and Core()->setSettings(): no option set by the facade
ClearedConfig == [k \in EngineKeys |-> {}]

\* Core()->cmd(...): the three directives the facade issues
CoreCmd(st, directive, arg) ==
    CASE directive = "ecd" -> [st EXCEPT !.core.scheme = "default"]
      [] directive = "eco" -> [st EXCEPT !.core.scheme = arg]
      [] directive = "e-"  -> [st EXCEPT !.core.config = ClearedConfig]

\* ThemeWorker().getTheme(theme): the colour set read back from the engine
getTheme(st, theme) == EngineSchemes[st.core.scheme]

Digit == <<"0", "1", "2", "3", "4", "5", "6", "7", "8", "9">>

RECURSIVE IntToStr(_)
\* QString::number(n), n >= 0
IntToStr(n) ==
    IF n < 10 THEN Digit[n + 1] ELSE IntToStr(n \div 10) \o Digit[(n % 10) + 1]

\* QVariant::toString()
VariantToString(v) ==
    CASE v[1] = "bool"   -> IF v[2] = 1 THEN "true" ELSE "false"
      [] v[1] = "int"    -> IntToStr(v[2])
      [] v[1] = "string" -> v[3]
      [] OTHER           -> ""

\* Core()->setConfig(key, QVariant): the typed setter chosen by value.type()
CoreSetConfig(st, key, value) ==
    LET stored ==
            CASE value[1] = "bool" -> <<"num", value[2], "">>
              [] value[1] = "int"  -> <<"num", value[2], "">>
              [] OTHER             -> <<"str", 0, VariantToString(value)>>
    IN  [st EXCEPT !.core.config[key] = {stored}]

\* Core()->getConfigb(key)
getConfigb(st, key) ==
    LET e == st.core.config[key]
    IN  IF e = {} THEN FALSE
        ELSE LET x == CHOOSE y \in e : TRUE
             IN  IF x[1] = "num" THEN x[2] # 0 ELSE x[3] = "true"

\* Core()->getConfigi(key)
getConfigi(st, key) ==
    LET e == st.core.config[key]
    IN  IF e = {} THEN 0
        ELSE LET x == CHOOSE y \in e : TRUE
             IN  IF x[1] = "num" THEN x[2] ELSE 0

\* Core()->getConfig(key)
getConfig(st, key) ==
    LET e == st.core.config[key]
    IN  IF e = {} THEN ""
        ELSE LET x == CHOOSE y \in e : TRUE
             IN  IF x[1] = "num" THEN IntToStr(x[2]) ELSE x[3]

----------------------------------------------------------------------------
(* The durable store *)

\* Every colour name the model reads or writes under "colors."
ColorKeys ==
    KeysOf(NativeBaseColors) \cup KeysOf(NativeDarkColors) \cup
    KeysOf(NativeLightColors) \cup KeysOf(LightColors) \cup
    KeysOf(DarkBaseColors) \cup KeysOf(DarkColors) \cup
    UNION {DOMAIN EngineSchemes[n] : n \in ThemeNames} \cup
    {"other", "gui.unknown"}

\* The store after s.clear(), and on a first start
EmptyStore ==
    [ ColorPalette |-> {},
      theme        |-> {},
      colors       |-> [k \in ColorKeys |-> {}],
      lastThemeOf  |-> [n \in InterfaceThemeNames |-> {}],
      opts         |-> [k \in EngineKeys |-> {}] ]

\* s.value(key, default) on one entry of the store
Value(entry, default) == IF entry = {} THEN default ELSE CHOOSE x \in entry : TRUE

\* getInterfaceTheme(): s.value("ColorPalette", 0).toInt()
getInterfaceTheme(st) == Value(st.s.ColorPalette, 0)

\* getColorTheme(): s.value("theme", "default").toString()
getColorTheme(st) == Value(st.s.theme, "default")

\* emit <signal>()
Emit(st, signal) == [st EXCEPT !.emitted = Append(@, signal)]


----------------------------------------------------------------------------
(* The facade's operations, each a function from state to state.           *)
(* A state st is [s, core, palette, styleSheet, nativePalette, emitted].   *)

\* The bundled stylesheet resources; QFile::exists() holds for each of them
Resources == {":native/native.qss", ":lightstyle/light.qss", ":qdarkstyle/style.qss"}

Black == <<0, 0, 0>>
White == <<255, 255, 255>>

\* Configuration::setColor
setColor(st, name, color) == [st EXCEPT !.s.colors[name] = {color}]

RECURSIVE setColors(_, _)
\* A run of setColor calls, in the order of the table
setColors(st, table) ==
    IF table = <<>> THEN st
    ELSE setColors(setColor(st, Head(table)[1], Head(table)[2]), Tail(table))

RECURSIVE setInterfaceTheme(_, _)

\* Configuration::getCurrentTheme: the theme, and the state it leaves
getCurrentTheme(st) ==
    LET i == getInterfaceTheme(st)
    IN  IF i < 0 \/ i >= ThemesListSize
        THEN [st |-> setInterfaceTheme(st, 0), theme |-> ThemeAt(0)]
        ELSE [st |-> st, theme |-> ThemeAt(i)]

\* windowColorIsDark deciding by the window colour alone, whatever the
\* current theme's flags
windowColorIsDarkByColorOnly(st) ==
    LET cur == getCurrentTheme(st)
        windowColor == cur.st.palette.Window
    IN  [ st  |-> cur.st,
          val |-> (windowColor[1] + windowColor[2] + windowColor[3]) < 382 ]

\* Configuration::windowColorIsDark: the answer, and the state it leaves
windowColorIsDark(st) ==
    LET cur == getCurrentTheme(st)
        currentThemeColorFlags == cur.theme.flag
        windowColor == cur.st.palette.Window
    IN  [ st  |-> cur.st,
          val |-> IF currentThemeColorFlags = {LightFlag} THEN FALSE
                  ELSE IF currentThemeColorFlags = {DarkFlag} THEN TRUE
                  ELSE (windowColor[1] + windowColor[2] + windowColor[3]) < 382 ]

\* Configuration::loadBaseThemeNative
loadBaseThemeNative(st) ==
    LET st1 == IF ":native/native.qss" \in Resources
               THEN [st EXCEPT !.styleSheet = ":native/native.qss"]
               ELSE st
        st2 == [st1 EXCEPT !.palette = st.nativePalette]
    IN  setColors(st2, NativeBaseColors)

\* Configuration::loadNativeTheme
loadNativeTheme(st) ==
    LET dark == windowColorIsDark(loadBaseThemeNative(st))
    IN  IF dark.val THEN setColors(dark.st, NativeDarkColors)
        ELSE setColors(dark.st, NativeLightColors)

\* Configuration::loadLightTheme
loadLightTheme(st) ==
    LET st1 == IF ":lightstyle/light.qss" \in Resources
               THEN [st EXCEPT !.palette.Text = Black,
                               !.styleSheet = ":lightstyle/light.qss"]
               ELSE st
    IN  setColors(st1, LightColors)

\* Configuration::loadBaseThemeDark
loadBaseThemeDark(st) ==
    LET st1 == IF ":qdarkstyle/style.qss" \in Resources
               THEN [st EXCEPT !.palette.Text = White,
                               !.styleSheet = ":qdarkstyle/style.qss"]
               ELSE st
    IN  setColors(st1, DarkBaseColors)

\* Configuration::loadDarkTheme
loadDarkTheme(st) == setColors(loadBaseThemeDark(st), DarkColors)

\* setInterfaceTheme persisting the index before it is clamped
setInterfaceThemeStoresRawIndex(st, theme) ==
    LET t == IF theme >= ThemesListSize \/ theme < 0 THEN 0 ELSE theme
        st1 == [st EXCEPT !.s.ColorPalette = {theme}]
        themeName == ThemeAt(t).name
        st2 == IF themeName = "Native" THEN loadNativeTheme(st1)
               ELSE IF themeName = "Dark" THEN loadDarkTheme(st1)
               ELSE IF themeName = "Light" THEN loadLightTheme(st1)
               ELSE loadNativeTheme(st1)
    IN  Emit(Emit(st2, "interfaceThemeChanged"), "colorsUpdated")

\* Configuration::setInterfaceTheme
setInterfaceTheme(st, theme) ==
    LET t == IF theme >= ThemesListSize \/ theme < 0 THEN 0 ELSE theme
        st1 == [st EXCEPT !.s.ColorPalette = {t}]
        themeName == ThemeAt(t).name
        st2 == IF themeName = "Native" THEN loadNativeTheme(st1)
               ELSE IF themeName = "Dark" THEN loadDarkTheme(st1)
               ELSE IF themeName = "Light" THEN loadLightTheme(st1)
               ELSE loadNativeTheme(st1)
    IN  Emit(Emit(st2, "interfaceThemeChanged"), "colorsUpdated")

\* Configuration::getLastThemeOf
getLastThemeOf(st, currInterfaceTheme) ==
    Value(st.s.lastThemeOf[currInterfaceTheme.name], getColorTheme(st))

\* setLastThemeOf recording under the current interface theme, not the
\* one it is given
setLastThemeOfCurrent(st, currInterfaceTheme, theme) ==
    LET i == getInterfaceTheme(st)
        cur == IF i < 0 \/ i >= ThemesListSize THEN ThemeAt(0) ELSE ThemeAt(i)
    IN  [st EXCEPT !.s.lastThemeOf[cur.name] = {theme}]

\* Configuration::setLastThemeOf
setLastThemeOf(st, currInterfaceTheme, theme) ==
    [st EXCEPT !.s.lastThemeOf[currInterfaceTheme.name] = {theme}]

\* getColor answering a missing key with QColor() instead of colors.other
getColorNoFallback(st, name) == Value(st.s.colors[name], InvalidColor)

\* Configuration::getColor
getColor(st, name) ==
    IF st.s.colors[name] # {}
    THEN Value(st.s.colors[name], InvalidColor)
    ELSE Value(st.s.colors["other"], InvalidColor)

\* setColorTheme with the isCustomTheme test inverted
setColorThemeInverted(st, theme) ==
    LET st1 == IF theme = "default"
               THEN [CoreCmd(st, "ecd", "") EXCEPT !.s.theme = {"default"}]
               ELSE [CoreCmd(st, "eco", theme) EXCEPT !.s.theme = {theme}]
        colorTheme == getTheme(st1, theme)
        cached == [k \in ColorKeys |->
                     IF k \in DOMAIN colorTheme /\ Len(colorTheme[k]) = 4
                     THEN {RGBA(colorTheme[k][1], colorTheme[k][2],
                                colorTheme[k][3], colorTheme[k][4])}
                     ELSE st1.s.colors[k]]
        st2 == [st1 EXCEPT !.s.colors = cached]
        st3 == IF isCustomTheme(theme)
               THEN setInterfaceTheme(st2, getInterfaceTheme(st2))
               ELSE st2
    IN  Emit(st3, "colorsUpdated")

\* Configuration::setColorTheme
setColorTheme(st, theme) ==
    LET st1 == IF theme = "default"
               THEN [CoreCmd(st, "ecd", "") EXCEPT !.s.theme = {"default"}]
               ELSE [CoreCmd(st, "eco", theme) EXCEPT !.s.theme = {theme}]
        colorTheme == getTheme(st1, theme)
        cached == [k \in ColorKeys |->
                     IF k \in DOMAIN colorTheme /\ Len(colorTheme[k]) = 4
                     THEN {RGBA(colorTheme[k][1], colorTheme[k][2],
                                colorTheme[k][3], colorTheme[k][4])}
                     ELSE st1.s.colors[k]]
        st2 == [st1 EXCEPT !.s.colors = cached]
        st3 == IF ~isCustomTheme(theme)
               THEN setInterfaceTheme(st2, getInterfaceTheme(st2))
               ELSE st2
    IN  Emit(st3, "colorsUpdated")

\* setConfig persisting every key, recognised or not
setConfigPersistsAll(st, key, value) ==
    CoreSetConfig([st EXCEPT !.s.opts[key] = {value}], key, value)

\* setConfig forwarding to the engine without persisting
setConfigForwardsOnly(st, key, value) == CoreSetConfig(st, key, value)

\* Configuration::setConfig
setConfig(st, key, value) ==
    LET st1 == IF IsAsmOption(key) THEN [st EXCEPT !.s.opts[key] = {value}] ELSE st
    IN  CoreSetConfig(st1, key, value)

RECURSIVE resetKeys(_, _)
\* The loop of resetToDefaultAsmOptions over the keys still to visit
resetKeys(st, keys) ==
    IF keys = {} THEN st
    ELSE LET k == CHOOSE x \in keys : TRUE
         IN  resetKeys(setConfig(st, k, asmOptions[k]), keys \ {k})

\* Configuration::resetToDefaultAsmOptions
resetToDefaultAsmOptions(st) == resetKeys(st, DOMAIN asmOptions)

RECURSIVE applyKeys(_, _)
\* The loop of applySavedAsmOptions over the keys still to visit
applyKeys(st, keys) ==
    IF keys = {} THEN st
    ELSE LET k == CHOOSE x \in keys : TRUE
         IN  applyKeys(CoreSetConfig(st, k, Value(st.s.opts[k], asmOptions[k])),
                       keys \ {k})

RECURSIVE applyDefaultKeys(_, _)
\* The loop of applySavedAsmOptions, forwarding the defaults only
applyDefaultKeys(st, keys) ==
    IF keys = {} THEN st
    ELSE LET k == CHOOSE x \in keys : TRUE
         IN  applyDefaultKeys(CoreSetConfig(st, k, asmOptions[k]), keys \ {k})

\* applySavedAsmOptions ignoring what the store holds
applyDefaultAsmOptions(st) == applyDefaultKeys(st, DOMAIN asmOptions)

\* Configuration::applySavedAsmOptions
applySavedAsmOptions(st) == applyKeys(st, DOMAIN asmOptions)

\* getConfigVar without the Int case: integers are read as strings
getConfigVarNoInt(st, key) ==
    IF IsAsmOption(key)
    THEN CASE asmOptions[key][1] = "bool" -> QBool(getConfigb(st, key))
           [] OTHER                       -> QStr(getConfig(st, key))
    ELSE QInvalid

\* Configuration::getConfigVar
getConfigVar(st, key) ==
    IF IsAsmOption(key)
    THEN CASE asmOptions[key][1] = "bool" -> QBool(getConfigb(st, key))
           [] asmOptions[key][1] = "int"  -> QInt(getConfigi(st, key))
           [] OTHER                       -> QStr(getConfig(st, key))
    ELSE QInvalid

\* Configuration::loadInitial
loadInitial(st) ==
    LET st1 == setInterfaceTheme(st, getInterfaceTheme(st))
        st2 == setColorTheme(st1, getColorTheme(st1))
    IN  applySavedAsmOptions(st2)

\* resetAll without s.clear()
resetAllKeepsStore(st) ==
    Emit(loadInitial(CoreCmd(st, "e-", "")), "fontsUpdated")

\* Configuration::resetAll
resetAll(st) ==
    LET st1 == CoreCmd(st, "e-", "")
        st2 == [st1 EXCEPT !.s = EmptyStore]
    IN  Emit(loadInitial(st2), "fontsUpdated")


----------------------------------------------------------------------------
(* Inputs tried by the model *)

\* Window colours of the application palette: channel sums 381 and 382
WindowColors == {<<127, 127, 127>>, <<128, 127, 127>>}

\* Indices passed to setInterfaceTheme: the registry's and IndexSlack beyond
ThemeIndices == (0 - IndexSlack)..(ThemesListSize - 1 + IndexSlack)

\* A colour no loader and no engine scheme assigns
CustomColor == RGBA(9, 9, 9, 200)

SetColorNames == {"gui.background", "gui.navbar.seek", "other"}

GetColorNames == SetColorNames \cup {"gui.navbar.err", "graph.true", "gui.unknown"}

ConfigKeys == {"asm.esil", "asm.cmt.col", "asm.syntax", "bin.demangle"}

ConfigValues == {QBool(TRUE), QBool(FALSE), QInt(7), QStr("att")}

----------------------------------------------------------------------------
(* State machine *)

NoRet == <<"void", 0, "", InvalidColor>>
RetColor(c) == <<"color", 0, "", c>>
RetBool(b) == <<"bool", IF b THEN 1 ELSE 0, "", InvalidColor>>
RetString(str) == <<"string", 0, str, InvalidColor>>
RetVariant(v) == <<v[1], v[2], v[3], InvalidColor>>

\* A facade call: the operation and the arguments it takes
Call(op) == [op |-> op, idx |-> 0, key |-> "", val |-> QInvalid, color |-> InvalidColor]

\* The state the next call starts from: it has emitted nothing yet
St == [ s |-> s, core |-> core, palette |-> palette, styleSheet |-> styleSheet,
        nativePalette |-> nativePalette, emitted |-> <<>> ]

Commit(st, c, r) ==
    /\ s' = st.s
    /\ core' = st.core
    /\ palette' = st.palette
    /\ styleSheet' = st.styleSheet
    /\ nativePalette' = st.nativePalette
    /\ emitted' = st.emitted
    /\ call' = c
    /\ ret' = r

\* A first start: an empty store, the engine with its native scheme and no
\* option set, no stylesheet, the palette np the platform gave the application
FreshStart(np) ==
    [ s |-> EmptyStore, core |-> [config |-> ClearedConfig, scheme |-> "default"],
      palette |-> np, styleSheet |-> "", nativePalette |-> np, emitted |-> <<>> ]

\* The state the constructor leaves: a first start, or a later start whose
\* store holds what an earlier run or another build wrote to it (an index
\* outside the registry, an option that differs from its default).
Init ==
    \E w \in WindowColors, cp \in {{}, {ThemesListSize}}, esil \in {{}, {QBool(TRUE)}} :
        LET fresh == FreshStart([Window |-> w, Text |-> Black])
        IN  /\ s = [fresh.s EXCEPT !.ColorPalette = cp, !.opts["asm.esil"] = esil]
            /\ core = fresh.core
            /\ palette = fresh.palette
            /\ styleSheet = fresh.styleSheet
            /\ nativePalette = fresh.nativePalette
            /\ emitted = <<>>
            /\ call = Call("constructor")
            /\ ret = NoRet

SetInterfaceTheme(theme) ==
    Commit(setInterfaceTheme(St, theme),
           [Call("setInterfaceTheme") EXCEPT !.idx = theme], NoRet)

SetColorTheme(theme) ==
    Commit(setColorTheme(St, theme), [Call("setColorTheme") EXCEPT !.key = theme], NoRet)

SetColor(name, color) ==
    Commit(setColor(St, name, color),
           [Call("setColor") EXCEPT !.key = name, !.color = color], NoRet)

GetColor(name) ==
    Commit(St, [Call("getColor") EXCEPT !.key = name], RetColor(getColor(St, name)))

SetLastThemeOf(i, theme) ==
    Commit(setLastThemeOf(St, ThemeAt(i), theme),
           [Call("setLastThemeOf") EXCEPT !.idx = i, !.key = theme], NoRet)

GetLastThemeOf(i) ==
    Commit(St, [Call("getLastThemeOf") EXCEPT !.idx = i],
           RetString(getLastThemeOf(St, ThemeAt(i))))

WindowColorIsDark ==
    LET r == windowColorIsDark(St)
    IN  Commit(r.st, Call("windowColorIsDark"), RetBool(r.val))

\* The platform or another component gives the application a new Window colour
ApplicationPaletteChange(color) ==
    /\ palette.Window # color
    /\ Commit([St EXCEPT !.palette.Window = color],
              [Call("applicationPaletteChange") EXCEPT !.color = <<color[1], color[2], color[3], 255>>],
              NoRet)

SetConfig(key, value) ==
    Commit(setConfig(St, key, value),
           [Call("setConfig") EXCEPT !.key = key, !.val = value], NoRet)

GetConfigVar(key) ==
    Commit(St, [Call("getConfigVar") EXCEPT !.key = key],
           RetVariant(getConfigVar(St, key)))

ResetToDefaultAsmOptions ==
    Commit(resetToDefaultAsmOptions(St), Call("resetToDefaultAsmOptions"), NoRet)

ApplySavedAsmOptions ==
    Commit(applySavedAsmOptions(St), Call("applySavedAsmOptions"), NoRet)

LoadInitial == Commit(loadInitial(St), Call("loadInitial"), NoRet)

ResetAll == Commit(resetAll(St), Call("resetAll"), NoRet)

\* Themes and colours
NextTheme ==
    \/ \E theme \in ThemeIndices : SetInterfaceTheme(theme)
    \/ \E theme \in ThemeNames : SetColorTheme(theme)
    \/ \E name \in SetColorNames : SetColor(name, CustomColor)
    \/ \E name \in GetColorNames : GetColor(name)
    \/ WindowColorIsDark
    \/ \E color \in WindowColors : ApplicationPaletteChange(color)

SpecTheme == Init /\ [][NextTheme]_vars

\* The per-interface-theme record of the last colour theme
NextLastTheme ==
    \/ \E theme \in ThemeIndices : SetInterfaceTheme(theme)
    \/ \E theme \in ThemeNames : SetColorTheme(theme)
    \/ \E i \in 0..(ThemesListSize - 1), theme \in {"ayu", "MyCustom"} :
            SetLastThemeOf(i, theme)
    \/ \E i \in 0..(ThemesListSize - 1) : GetLastThemeOf(i)

SpecLastTheme == Init /\ [][NextLastTheme]_vars

\* The option mirror
NextOptions ==
    \/ \E key \in ConfigKeys, value \in ConfigValues : SetConfig(key, value)
    \/ \E key \in ConfigKeys : GetConfigVar(key)
    \/ ResetToDefaultAsmOptions
    \/ ApplySavedAsmOptions

SpecOptions == Init /\ [][NextOptions]_vars

\* Start-up and full reset, over themes, colours and options together
Next ==
    \/ LoadInitial
    \/ ResetAll
    \/ \E theme \in ThemeIndices : SetInterfaceTheme(theme)
    \/ \E theme \in ThemeNames : SetColorTheme(theme)
    \/ SetColor("gui.background", CustomColor)
    \/ SetColor("gui.unknown", CustomColor)
    \/ \E key \in {"asm.esil", "bin.demangle"} : SetConfig(key, QBool(TRUE))
    \/ ResetToDefaultAsmOptions
    \/ ApplySavedAsmOptions

Spec == Init /\ [][Next]_vars

\* The option mirror across start-up, reset and theme changes
NextMirror ==
    \/ LoadInitial
    \/ ResetAll
    \/ \E key \in {"asm.cmt.col", "bin.demangle"}, value \in {QInt(7), QStr("att")} :
            SetConfig(key, value)
    \/ ResetToDefaultAsmOptions
    \/ ApplySavedAsmOptions
    \/ \E theme \in ThemeIndices : SetInterfaceTheme(theme)
    \/ \E theme \in ThemeNames : SetColorTheme(theme)

SpecMirror == Init /\ [][NextMirror]_vars


----------------------------------------------------------------------------
(* Properties *)

\* The colour the engine's loaded scheme reports for key, as setColorTheme
\* caches it
EngineColor(key) ==
    LET a == getTheme(St, call.key)[key] IN RGBA(a[1], a[2], a[3], a[4])

\* The value the loader of interface theme i leaves under key: the last
\* assignment to key in the loader's run of setColor calls
LastOf(table, key) ==
    LET i == CHOOSE j \in 1..Len(table) :
                 /\ table[j][1] = key
                 /\ \A m \in (j + 1)..Len(table) : table[m][1] # key
    IN  table[i][2]

\* What a loader's run of setColor calls leaves under each key it names
FinalOf(table) == [k \in KeysOf(table) |-> LastOf(table, k)]

DarkFinal == FinalOf(DarkBaseColors \o DarkColors)
LightFinal == FinalOf(LightColors)
NativeDarkFinal == FinalOf(NativeBaseColors \o NativeDarkColors)
NativeLightFinal == FinalOf(NativeBaseColors \o NativeLightColors)

\* The override table of the loader setInterfaceTheme dispatches to for
\* index i, given the palette the loader works on
OverrideTable(i, np) ==
    IF ThemeAt(i).name = "Dark" THEN DarkFinal
    ELSE IF ThemeAt(i).name = "Light" THEN LightFinal
    ELSE IF (np.Window[1] + np.Window[2] + np.Window[3]) < 382
         THEN NativeDarkFinal
         ELSE NativeLightFinal

\* Every key of the current interface theme's override table holds the
\* table's value
OverridesPresent ==
    /\ getInterfaceTheme(St) \in 0..(ThemesListSize - 1)
    /\ LET table == OverrideTable(getInterfaceTheme(St), nativePalette)
       IN  \A k \in DOMAIN table : s.colors[k] = {table[k]}

\* C1: after setColorTheme("default") returns, getColor("gui.background") is
\* the value the engine's native scheme reports for gui.background, whatever
\* the interface theme and whatever was cached before.
C1_DefaultThemeBackgroundIsEngines ==
    (call.op = "setColorTheme" /\ call.key = "default")
        => getColor(St, "gui.background") = EngineColor("gui.background")

\* C2 as stated: setColorTheme(name) for a custom theme leaves every key of
\* the current interface theme's override table holding the table's value,
\* as it did before the call.
C2_CustomThemeKeepsOverrides ==
    [][(call'.op = "setColorTheme" /\ isCustomTheme(call'.key) /\ OverridesPresent)
          => OverridesPresent']_vars

\* C2, amended: setColorTheme(name) re-runs setInterfaceTheme(current index)
\* after caching the engine's colours exactly when name is not a custom
\* theme, and then every key of the interface theme's override table holds
\* the table's value even where the engine's colour set defines the key. For
\* a custom theme nothing is re-run: only colors-updated is emitted and every
\* well-formed key of the custom theme's colour set holds the custom value.
C2_OverridesRestoredForNonCustomOnly ==
    call.op = "setColorTheme" =>
        IF isCustomTheme(call.key)
        THEN /\ emitted = <<"colorsUpdated">>
             /\ \A k \in DOMAIN getTheme(St, call.key) :
                    Len(getTheme(St, call.key)[k]) = 4 => s.colors[k] = {EngineColor(k)}
        ELSE /\ emitted = <<"interfaceThemeChanged", "colorsUpdated", "colorsUpdated">>
             /\ OverridesPresent

\* C2's case: a custom theme that defines a navbar key was applied under Dark
C2_Witness ==
    /\ call.op = "setColorTheme"
    /\ call.key = "MyCustom"
    /\ s.ColorPalette = {1}
    /\ s.colors["gui.navbar.seek"] = {RGBA(1, 2, 3, 255)}
    /\ s.colors["gui.navbar.pc"] = {RGB(66, 238, 244)}


\* C3 as stated: after setInterfaceTheme(index of X) the current colour
\* theme is the name last recorded for X.
C3_SwitchRestoresLastTheme ==
    call.op = "setInterfaceTheme" =>
        getColorTheme(St) = getLastThemeOf(St, ThemeAt(getInterfaceTheme(St)))

\* C3, amended: each interface theme X has its own recorded colour theme
\* name, written only by setLastThemeOf(X, name) and read by
\* getLastThemeOf(X), which returns it, or the current colour theme when
\* none is recorded; setInterfaceTheme restores nothing: it leaves the
\* persisted colour theme name and every recorded name as they were.
C3_LastThemeIsRecordedNotRestored ==
    [][ /\ call'.op = "setInterfaceTheme" =>
              s'.theme = s.theme /\ s'.lastThemeOf = s.lastThemeOf
        /\ call'.op = "setColorTheme" => s'.lastThemeOf = s.lastThemeOf
        /\ call'.op = "setLastThemeOf" =>
              /\ s'.theme = s.theme
              /\ \A i \in 0..(ThemesListSize - 1) :
                    getLastThemeOf(St', ThemeAt(i)) =
                        IF i = call'.idx THEN call'.key
                        ELSE getLastThemeOf(St, ThemeAt(i))
        /\ call'.op = "getLastThemeOf" =>
              /\ s' = s
              /\ ret' = RetString(Value(s.lastThemeOf[ThemeAt(call'.idx).name],
                                        Value(s.theme, "default")))
      ]_vars

\* C3's case: Dark has "ayu" on record, the current colour theme is another,
\* and the interface theme was just switched to Dark
C3_Witness ==
    /\ call.op = "setInterfaceTheme"
    /\ call.idx = 1
    /\ s.ColorPalette = {1}
    /\ s.lastThemeOf["Dark"] = {"ayu"}
    /\ s.theme = {"MyCustom"}

\* C5: for every index outside [0, 3), setInterfaceTheme(i) ends in the
\* state setInterfaceTheme(0) ends in from the same start: index 0
\* persisted, the Native loader's colours, and interface-theme-changed then
\* colors-updated emitted.
C5_OutOfRangeIndexActsAsZero ==
    [][(call'.op = "setInterfaceTheme" /\ call'.idx \notin 0..(ThemesListSize - 1)) =>
          /\ [St' EXCEPT !.emitted = emitted'] = setInterfaceTheme(St, 0)
          /\ s'.ColorPalette = {0}
          /\ emitted' = <<"interfaceThemeChanged", "colorsUpdated">>
          /\ OverridesPresent'
      ]_vars

\* C5's case: a negative index was passed and the Native theme is loaded
C5_Witness ==
    /\ call.op = "setInterfaceTheme"
    /\ call.idx < 0
    /\ s.ColorPalette = {0}
    /\ styleSheet = ":native/native.qss"
    /\ palette.Text = Black
    /\ s.colors["gui.navbar.seek"] = {RGB(255, 0, 0)}

\* C8: getColor(k) returns colors.k when it is present and otherwise what
\* the store yields for colors.other (the invalid colour when that is absent
\* too), and changes nothing.
C8_GetColorFallsBackToOther ==
    [][call'.op = "getColor" =>
          /\ UNCHANGED <<s, core, palette, styleSheet, nativePalette>>
          /\ ret' = RetColor(Value(s.colors[call'.key],
                                   Value(s.colors["other"], InvalidColor)))
          /\ Len(ret'[4]) = 4
      ]_vars

\* C8's case: a key the store does not hold was read while colors.other is set
C8_Witness ==
    /\ call.op = "getColor"
    /\ call.key = "gui.unknown"
    /\ s.colors["gui.unknown"] = {}
    /\ s.colors["other"] = {RGBA(192, 192, 192, 255)}
    /\ ret = RetColor(RGBA(192, 192, 192, 255))

\* C9: when the current interface theme supports one appearance,
\* windowColorIsDark() is that appearance whatever the window colour is
\* (true under Dark, false under Light); under Native it is true exactly
\* when red + green + blue of the window colour is below 382.
C9_SingleAppearanceDecides ==
    /\ call.op = "windowColorIsDark" =>
          LET flag == ThemeAt(getInterfaceTheme(St)).flag
              sum == palette.Window[1] + palette.Window[2] + palette.Window[3]
          IN  /\ flag = {DarkFlag} => ret = RetBool(TRUE)
              /\ flag = {LightFlag} => ret = RetBool(FALSE)
              /\ flag = {LightFlag, DarkFlag} => ret = RetBool(sum < 382)
    /\ (call.op = "setInterfaceTheme" /\ call.idx = 1) => windowColorIsDark(St).val
    /\ (call.op = "setInterfaceTheme" /\ call.idx = 2) => ~windowColorIsDark(St).val

\* C9's case: Dark is current, the window colour is not dark by its channel
\* sum, and windowColorIsDark() answered true
C9_Witness ==
    /\ call.op = "windowColorIsDark"
    /\ s.ColorPalette = {1}
    /\ palette.Window[1] + palette.Window[2] + palette.Window[3] >= 382
    /\ ret = RetBool(TRUE)


\* What the engine holds for key once value has been forwarded to it
Forwarded(key, value) == CoreSetConfig(St, key, value).core.config[key]

\* C4: resetAll() followed by loadInitial() leaves the persisted interface
\* theme index, the persisted colour theme name and the whole colour cache
\* (with the rest of the store, the engine, the palette and the stylesheet)
\* as loadInitial() leaves them on a first start; nothing written before the
\* reset survives.
C4_ResetThenLoadIsFreshStart ==
    [][ /\ call'.op = "resetAll" =>
              [loadInitial(St') EXCEPT !.emitted = <<>>]
                  = [loadInitial(FreshStart(nativePalette)) EXCEPT !.emitted = <<>>]
        /\ (call.op = "resetAll" /\ call'.op = "loadInitial") =>
              St' = [loadInitial(FreshStart(nativePalette)) EXCEPT !.emitted = <<>>]
      ]_vars

\* C4's case: resetAll() has run and left the store of a first start, with
\* no colour outside the loaded tables and no persisted option
C4_Witness ==
    /\ call.op = "resetAll"
    /\ s = loadInitial(FreshStart(nativePalette)).s
    /\ s.ColorPalette = {0}
    /\ s.theme = {"default"}
    /\ s.colors["gui.unknown"] = {}
    /\ s.opts["asm.esil"] = {}
    /\ core.config["bin.demangle"] = {}

\* C6: for a catalog key k and a value v of k's declared type, setConfig(k, v)
\* followed by getConfigVar(k) returns v in that type; for a key outside the
\* catalog getConfigVar returns the empty value whatever was set.
C6_SetThenGetRoundTrip ==
    [][ /\ call'.op = "setConfig" =>
              IF IsAsmOption(call'.key)
              THEN call'.val[1] = asmOptions[call'.key][1]
                      => getConfigVar(St', call'.key) = call'.val
              ELSE getConfigVar(St', call'.key) = QInvalid
        /\ (call.op = "setConfig" /\ call'.op = "getConfigVar" /\ call'.key = call.key) =>
              IF IsAsmOption(call.key)
              THEN call.val[1] = asmOptions[call.key][1] => ret' = RetVariant(call.val)
              ELSE ret' = RetVariant(QInvalid)
      ]_vars

\* C6's case: an integer option was set to a value other than its default
\* and reads back as that integer
C6_Witness ==
    /\ call.op = "setConfig"
    /\ call.key = "asm.cmt.col"
    /\ call.val = QInt(7)
    /\ getConfigVar(St, "asm.cmt.col") = QInt(7)
    /\ core.config["bin.demangle"] # {}
    /\ getConfigVar(St, "bin.demangle") = QInvalid

\* C7: applySavedAsmOptions() leaves the store unchanged and gives every
\* catalog key in the engine its persisted value if present and its default
\* otherwise; a second call in a row changes nothing in the engine.
C7_ApplySavedIsIdempotent ==
    [][call'.op = "applySavedAsmOptions" =>
          /\ s' = s
          /\ \A k \in DOMAIN asmOptions :
                core'.config[k] = Forwarded(k, Value(s.opts[k], asmOptions[k]))
          /\ \A k \in OtherEngineKeys : core'.config[k] = core.config[k]
          /\ core'.scheme = core.scheme
          /\ applySavedAsmOptions(St').core = core'
          /\ applySavedAsmOptions(St').s = s'
          /\ call.op = "applySavedAsmOptions" => core' = core
      ]_vars

\* C7's case: applySavedAsmOptions() has run with one option persisted away
\* from its default and another not persisted
C7_Witness ==
    /\ call.op = "applySavedAsmOptions"
    /\ s.opts["asm.esil"] = {QBool(TRUE)}
    /\ core.config["asm.esil"] = {<<"num", 1, "">>}
    /\ s.opts["asm.cmt.col"] = {}
    /\ core.config["asm.cmt.col"] = {<<"num", 35, "">>}

\* C10: setConfig(key, value) forwards the value to the engine for every
\* key; it leaves the store unchanged for a key outside the catalog and
\* changes only that key's entry for a catalog key.
C10_SetConfigFrame ==
    [][call'.op = "setConfig" =>
          /\ core'.config[call'.key] = Forwarded(call'.key, call'.val)
          /\ core'.config[call'.key] # {}
          /\ \A k \in EngineKeys \ {call'.key} : core'.config[k] = core.config[k]
          /\ IF IsAsmOption(call'.key)
             THEN s' = [s EXCEPT !.opts[call'.key] = {call'.val}]
             ELSE s' = s
      ]_vars

\* C10's case: a key outside the catalog was set: the engine holds it, the
\* store does not
C10_Witness ==
    /\ call.op = "setConfig"
    /\ call.key = "bin.demangle"
    /\ core.config["bin.demangle"] = {<<"str", 0, "att">>}
    /\ s.opts["bin.demangle"] = {}
    /\ s.opts["asm.syntax"] = {QStr("att")}


\* Every catalog key holds in the engine the value persisted for it if one
\* is present and its compiled-in default otherwise
Mirrored ==
    \A k \in DOMAIN asmOptions :
        core.config[k] = Forwarded(k, Value(s.opts[k], asmOptions[k]))

\* C11: once loadInitial() has run (on its own or within resetAll()), every
\* catalog key holds in the engine its persisted value if present and its
\* default otherwise, and every later setConfig, resetToDefaultAsmOptions,
\* applySavedAsmOptions, setInterfaceTheme, setColorTheme, loadInitial and
\* resetAll call keeps it so.
C11_MirrorConsistency ==
    [][ /\ call'.op \in {"loadInitial", "resetAll"} => Mirrored'
        /\ Mirrored => Mirrored'
      ]_vars

\* C11's case: after start-up one option was set away from its default and
\* another was never persisted; the engine holds the set value for the first
\* and the default for the second
C11_Witness ==
    /\ call.op = "setConfig"
    /\ call.key = "asm.cmt.col"
    /\ s.opts["asm.cmt.col"] = {QInt(7)}
    /\ core.config["asm.cmt.col"] = {<<"num", 7, "">>}
    /\ s.opts["asm.syntax"] = {}
    /\ core.config["asm.syntax"] = {<<"str", 0, "intel">>}
    /\ s.theme # {}
    /\ Mirrored

====
